---------------------------- MODULE Spec2Model ----------------------------
(***************************************************************************)
(* Model of the caddy-tailscale-auth middleware (src/tailscale.go): the    *)
(* cached bulk-lookup variant, lines 1-466, and the direct-lookup (whois)  *)
(* variant, lines 468-759.                                                 *)
(*                                                                         *)
(* Go strings are modelled as sequences of tokens: a token is a substring  *)
(* that the code never looks inside (an address, an id, ",", " ", ":").    *)
(* The empty string is << >>.  A *Device is a record, the nil pointer is   *)
(* Nil.  http.Header is a function whose domain is the set of header names *)
(* that are present; a header name is the pair <<prefix, suffix>>.         *)
(*                                                                         *)
(* Device fields Name, User, OS, NodeID, ClientVersion, LastSeen and       *)
(* Created are plain strings copied exactly like Hostname; they are left   *)
(* out of the record to keep the state space small.                        *)
(***************************************************************************)
EXTENDS Integers, Sequences, FiniteSets, TLC

VARIABLES
    cache,      \* t.deviceCache: [IPToDevice, LastUpdate]
    wholder,    \* cacheMutex: the goroutine that called Lock (pending or holding)
    readers,    \* cacheMutex: goroutines holding the read lock
    rwait,      \* cacheMutex: goroutines parked inside RLock
    file,       \* the cache file on disk: as found at start, or what was written
    pc,         \* position of each request goroutine
    req,        \* the *http.Request each goroutine is serving
    resp,       \* refreshDeviceCache locals: the decoded response and its Date
    listed,     \* history: the device of the fetched directory listing the client IP
    dev,        \* getDeviceByIP result: the *Device
    err,        \* getDeviceByIP result: the error
    fetches,    \* remote directory requests sent for the current call
    fwd,        \* what was handed to next.ServeHTTP for the current request
    conf,       \* the configured fields of t: APIKey, Tailnet, HeaderPrefix, CacheFile
    ppc,        \* the module instance: "new", "ready" (Provision returned nil), "failed"
    perr,       \* the error Provision returned
    lerr,       \* the error loadDeviceCache returned to Provision, which logs it
    data,       \* saveDeviceCache local: the marshalled bytes
    serr,       \* the error saveDeviceCache returned
    saved,      \* history: the snapshot marshalled by the save that returned nil
    latest,     \* history: the goroutine whose directory fetch was answered last
    query,      \* the whois request each goroutine has sent: its addr parameter
    heap,       \* the Device objects allocated so far; a *Device is an index
    held        \* history: the record as getDeviceByIP returned it, until annotation

\* the serving state, and the state of Provision and of a save on its own
mainvars == <<cache, wholder, readers, rwait, file, pc, req, resp, listed, dev, err, fetches, fwd>>
bootvars == <<conf, ppc, perr, lerr>>
savevars == <<data, serr, saved>>
auxvars == <<latest, query, heap, held>>

vars == <<mainvars, bootvars, savevars, auxvars>>

(***************************************************************************)
(* Bounds                                                                  *)
(***************************************************************************)
NumProcs == 2
MaxDevices == 2
MaxHeap == 2

Procs == 1..NumProcs
NoProc == 0

(***************************************************************************)
(* Strings                                                                 *)
(***************************************************************************)
Empty == << >>
Comma == <<",">>
A1 == <<"a1">>
A2 == <<"a2">>

\* strings.Index(s, ","): position of the first "," token, 0 when absent
\* (Go returns -1 and counts from 0).
Index(s, tok) ==
    IF \E i \in 1..Len(s) : s[i] = tok
    THEN CHOOSE i \in 1..Len(s) : s[i] = tok /\ \A j \in 1..(i-1) : s[j] # tok
    ELSE 0

RECURSIVE TrimLeft(_)
TrimLeft(s) == IF s # Empty /\ Head(s) = " " THEN TrimLeft(Tail(s)) ELSE s

RECURSIVE TrimRight(_)
TrimRight(s) ==
    IF s # Empty /\ s[Len(s)] = " " THEN TrimRight(SubSeq(s, 1, Len(s) - 1)) ELSE s

\* strings.TrimSpace
TrimSpace(s) == TrimRight(TrimLeft(s))

\* strings.Join(ss, ",")
RECURSIVE Join(_, _)
Join(ss, sep) ==
    IF ss = << >> THEN Empty
    ELSE IF Len(ss) = 1 THEN ss[1]
    ELSE ss[1] \o sep \o Join(Tail(ss), sep)

\* fmt.Sprintf("%t", b)
SprintfBool(b) == IF b THEN <<"true">> ELSE <<"false">>

\* net.SplitHostPort without IPv6 brackets: [ok, host]
SplitHostPort(s) ==
    LET colons == {i \in 1..Len(s) : s[i] = ":"}
    IN  IF colons = {} THEN [ok |-> FALSE, host |-> Empty]
        ELSE LET last == CHOOSE i \in colons : \A j \in colons : j <= i
             IN  IF Cardinality(colons) > 1
                 THEN [ok |-> FALSE, host |-> Empty]
                 ELSE [ok |-> TRUE, host |-> SubSeq(s, 1, last - 1)]

(***************************************************************************)
(* Devices, directories and responses of the remote service                *)
(***************************************************************************)
Nil == [nil |-> TRUE]

D1 == [ID |-> <<"d1">>, Hostname |-> <<"h1">>, Authorized |-> TRUE,  Addresses |-> <<A1>>]
D2 == [ID |-> <<"d2">>, Hostname |-> Empty,    Authorized |-> FALSE, Addresses |-> <<A1, A2>>]
D3 == [ID |-> <<"d3">>, Hostname |-> <<"h3">>, Authorized |-> TRUE,  Addresses |-> << >>]

\* the devices the remote service knows
Devices == {D1, D2}

\* DevicesResponse.Devices: the lists of distinct devices the service may answer
Directories ==
    {ds \in UNION {[1..n -> Devices] : n \in 0..MaxDevices} :
        \A i, j \in 1..Len(ds) : i # j => ds[i] # ds[j]}

\* the device of directory ds that lists address ip and comes last, Nil when
\* no device of ds lists it
Lists(d, ip) == \E k \in 1..Len(d.Addresses) : d.Addresses[k] = ip
Listed(ds, ip) ==
    LET at == {i \in 1..Len(ds) : Lists(ds[i], ip)}
    IN  IF at = {} THEN Nil ELSE ds[CHOOSE i \in at : \A j \in at : j <= i]

\* resp.Header.Get("Date") of a 200 response: absent ("") or a date
Dates == {Empty, <<"t1">>}

NoResp == [Devices |-> << >>, Date |-> Empty]

\* the 200 responses: every directory with a Date header, and the
\* directories of at most one device without one
Responses ==
    {r \in [Devices : Directories, Date : Dates] :
        r.Date = Empty => Len(r.Devices) = 1}

(***************************************************************************)
(* http.Header and requests                                                *)
(***************************************************************************)
\* the defaults Provision sets
HeaderPrefix == "X-Tailscale-"
CacheFile == "tailscale_devices.json"

HName(prefix, suffix) == <<prefix, suffix>>
XForwardedFor == HName("", "X-Forwarded-For")
XRealIP == HName("", "X-Real-IP")

\* Header.Get: "" when the header is absent
HeaderGet(h, name) == IF name \in DOMAIN h THEN h[name] ELSE Empty

\* Header.Set: replaces the value
HeaderSet(h, name, value) ==
    [n \in DOMAIN h \cup {name} |-> IF n = name THEN value ELSE h[n]]

NoHeader == [n \in {} |-> Empty]

\* client-supplied headers carrying the configured prefix
Spoofed == (HName(HeaderPrefix, "Device-ID") :> <<"evil">>)
           @@ (HName(HeaderPrefix, "Device-Addresses") :> <<"evil">>)

Peer1 == A1 \o <<":", "port">>
Peer2 == A2 \o <<":", "port">>

\* inbound requests: a2 forwarded by proxy a1; no peer address; peer a1
\* sending identity headers of its own
Requests ==
    { [Header |-> (XForwardedFor :> (<<" ">> \o A2 \o <<",", " ">> \o A1)),
       RemoteAddr |-> Peer1],
      [Header |-> NoHeader, RemoteAddr |-> Empty],
      [Header |-> Spoofed, RemoteAddr |-> Peer1] }

NoReq == [Header |-> NoHeader, RemoteAddr |-> Empty]

\* Faulty variant: X-Real-IP is looked at before X-Forwarded-For.
getClientIP_RealIPFirst(r) ==
    LET xff == HeaderGet(r.Header, XForwardedFor)
        xri == HeaderGet(r.Header, XRealIP)
        hp  == SplitHostPort(r.RemoteAddr)
    IN  IF xri # Empty THEN xri
        ELSE IF xff # Empty
        THEN LET idx == Index(xff, ",")
             IN  IF idx # 0 THEN TrimSpace(SubSeq(xff, 1, idx - 1))
                 ELSE TrimSpace(xff)
        ELSE IF hp.ok THEN hp.host
        ELSE r.RemoteAddr

\* getClientIP of the whois variant: as below, but X-Real-IP is trimmed
getClientIP_whois(r) ==
    LET xff == HeaderGet(r.Header, XForwardedFor)
        xri == HeaderGet(r.Header, XRealIP)
        hp  == SplitHostPort(r.RemoteAddr)
    IN  IF xff # Empty
        THEN LET idx == Index(xff, ",")
             IN  IF idx # 0 THEN TrimSpace(SubSeq(xff, 1, idx - 1))
                 ELSE TrimSpace(xff)
        ELSE IF xri # Empty THEN TrimSpace(xri)
        ELSE IF hp.ok THEN hp.host
        ELSE r.RemoteAddr

\* getClientIP extracts the client IP from the request
getClientIP(r) ==
    LET xff == HeaderGet(r.Header, XForwardedFor)
        xri == HeaderGet(r.Header, XRealIP)
        hp  == SplitHostPort(r.RemoteAddr)
    IN  IF xff # Empty
        THEN LET idx == Index(xff, ",")
             IN  IF idx # 0 THEN TrimSpace(SubSeq(xff, 1, idx - 1))
                 ELSE TrimSpace(xff)
        ELSE IF xri # Empty THEN xri
        ELSE IF hp.ok THEN hp.host
        ELSE r.RemoteAddr

\* addDeviceHeaders adds Tailscale device information to request headers
addDeviceHeaders(h, device) ==
    LET h1 == HeaderSet(h, HName(conf.HeaderPrefix, "Device-ID"), device.ID)
        h2 == HeaderSet(h1, HName(conf.HeaderPrefix, "Device-Hostname"), device.Hostname)
        h3 == HeaderSet(h2, HName(conf.HeaderPrefix, "Device-Authorized"),
                        SprintfBool(device.Authorized))
    IN  IF Len(device.Addresses) > 0
        THEN HeaderSet(h3, HName(conf.HeaderPrefix, "Device-Addresses"),
                       Join(device.Addresses, Comma))
        ELSE h3

(***************************************************************************)
(* The device cache and the cache file                                     *)
(***************************************************************************)
EmptyMap == [a \in {} |-> Nil]

\* Provision: &DeviceCache{IPToDevice: make(map[string]*Device)}
EmptyCache == [IPToDevice |-> EmptyMap, LastUpdate |-> Empty]

\* Faulty variant of the inner loop: an address that is already a key keeps
\* the record it has.
RECURSIVE AddAddresses_KeepFirst(_, _, _)
AddAddresses_KeepFirst(m, device, i) ==
    IF i > Len(device.Addresses) THEN m
    ELSE AddAddresses_KeepFirst(
            [a \in DOMAIN m \cup {device.Addresses[i]} |->
                IF a \in DOMAIN m THEN m[a] ELSE device],
            device, i + 1)

\* the inner loop of refreshDeviceCache: IPToDevice[addr] = device
RECURSIVE AddAddresses(_, _, _)
AddAddresses(m, device, i) ==
    IF i > Len(device.Addresses) THEN m
    ELSE AddAddresses(
            [a \in DOMAIN m \cup {device.Addresses[i]} |->
                IF a = device.Addresses[i] THEN device ELSE m[a]],
            device, i + 1)

\* the outer loop of refreshDeviceCache over devicesResp.Devices
RECURSIVE Populate(_, _, _)
Populate(m, devices, i) ==
    IF i > Len(devices) THEN m
    ELSE Populate(AddAddresses(m, devices[i], 1), devices, i + 1)

\* Contents of the cache file when the process starts.  "typeerr" is a well
\* formed JSON document whose last_update is not a string: json.Unmarshal
\* decodes ip_to_device, skips last_update and returns an UnmarshalTypeError.
\* The files below: none; a snapshot saved earlier; a document with a null
\* entry, an entry whose record does not list its key, and a last_update of
\* the wrong type.
DiskFiles ==
    { [kind |-> "absent"],
      [kind |-> "json", ip_to_device |-> (A1 :> D1), last_update |-> <<"t0">>],
      [kind |-> "typeerr", ip_to_device |-> (A1 :> Nil) @@ (A2 :> D3),
       last_update |-> Empty] }

\* the cache file has not been written since the process started
AsFound == [kind |-> "asfound"]

\* A byte that is not valid UTF-8 and the replacement rune.  encoding/json
\* writes every string coerced to valid UTF-8: each invalid byte becomes
\* U+FFFD, which decodes as itself.
InvalidByte == "0xE9"
RuneError == "U+FFFD"
ToValidUTF8(str) ==
    [i \in 1..Len(str) |-> IF str[i] = InvalidByte THEN RuneError ELSE str[i]]

\* a *Device as json.MarshalIndent writes it: null, or the object
MarshalDevice(d) ==
    IF d = Nil THEN Nil
    ELSE [ID |-> ToValidUTF8(d.ID), Hostname |-> ToValidUTF8(d.Hostname),
          Authorized |-> d.Authorized,
          Addresses |-> [i \in 1..Len(d.Addresses) |-> ToValidUTF8(d.Addresses[i])]]

\* Faulty variant: last_update is left out of the document.
MarshalIndent_NoLastUpdate(c) ==
    [kind |-> "json",
     ip_to_device |->
        [k \in {ToValidUTF8(a) : a \in DOMAIN c.IPToDevice} |->
            MarshalDevice(c.IPToDevice[CHOOSE a \in DOMAIN c.IPToDevice :
                                          ToValidUTF8(a) = k])],
     last_update |-> Empty]

\* json.MarshalIndent(t.deviceCache, "", "  "): the document, as the file
\* holding it.  It cannot fail on a DeviceCache (strings, bools, slices and
\* a map keyed by strings).
MarshalIndent(c) ==
    [kind |-> "json",
     ip_to_device |->
        [k \in {ToValidUTF8(a) : a \in DOMAIN c.IPToDevice} |->
            MarshalDevice(c.IPToDevice[CHOOSE a \in DOMAIN c.IPToDevice :
                                          ToValidUTF8(a) = k])],
     last_update |-> ToValidUTF8(c.LastUpdate)]

\* Faulty variant: a missing cache file is reported like any read error.
loadErr_NotExistIsError(f) ==
    IF f.kind \in {"absent", "unreadable"} THEN "failed to read cache file"
    ELSE IF f.kind \in {"syntax", "typeerr"} THEN "failed to unmarshal cache"
    ELSE "nil"

\* loadDeviceCache: the error it returns.  A missing file is no error; a
\* document that is not JSON is rejected before anything is decoded.
loadErr(f) ==
    IF f.kind = "unreadable" THEN "failed to read cache file"
    ELSE IF f.kind \in {"syntax", "typeerr"} THEN "failed to unmarshal cache"
    ELSE "nil"

\* loadDeviceCache: the cache it leaves when run on the empty cache
loadDeviceCache(f) ==
    IF f.kind \in {"absent", "unreadable", "syntax"} THEN EmptyCache
    ELSE IF f.kind = "typeerr"
         THEN [IPToDevice |-> f.ip_to_device, LastUpdate |-> Empty]
         ELSE [IPToDevice |-> f.ip_to_device, LastUpdate |-> f.last_update]

(***************************************************************************)
(* getDeviceByIP results                                                   *)
(***************************************************************************)
ErrNil == "nil"
ErrRefresh == "failed to refresh device cache"
ErrNotFound == "device not found even after cache refresh"

\* err != nil
IsError(e) == e # ErrNil

NoFwd == [n |-> 0, Header |-> NoHeader]

clientIP(p) == getClientIP(req[p])

\* device, exists := t.deviceCache.IPToDevice[clientIP]; exists && device != nil
Hit(c, ip) == ip \in DOMAIN c.IPToDevice /\ c.IPToDevice[ip] # Nil

(***************************************************************************)
(* Configuration.  Config strings are compared with "" and the prefix is   *)
(* put in front of header names; nothing else is done with them.           *)
(***************************************************************************)
Configs ==
    [APIKey : {"", "key"}, Tailnet : {"", "example.net"},
     HeaderPrefix : {"", "X-TS-"}, CacheFile : {"", "/var/cache/ts.json"}]

\* a configuration as Provision leaves it when only the required fields are set
Provisioned ==
    [APIKey |-> "key", Tailnet |-> "example.net",
     HeaderPrefix |-> HeaderPrefix, CacheFile |-> CacheFile]

\* lerr once serving has started: Provision has logged it and dropped it
Dropped == "dropped"

\* no whois request has been sent
NoQuery == [sent |-> FALSE, addr |-> Empty]

\* no save on its own is under way
NoData == [kind |-> "none"]
SaveIdle == data = NoData /\ serr = ErrNil /\ saved = Nil

\* the zero cacheMutex and no request being served; pcs: where each
\* goroutine is
Quiet(pcs) ==
    /\ wholder = NoProc
    /\ readers = {}
    /\ rwait = {}
    /\ pc = pcs
    /\ req = [p \in Procs |-> NoReq]
    /\ resp = [p \in Procs |-> NoResp]
    /\ listed = [p \in Procs |-> Nil]
    /\ dev = [p \in Procs |-> Nil]
    /\ err = [p \in Procs |-> ErrNil]
    /\ fetches = [p \in Procs |-> 0]
    /\ fwd = [p \in Procs |-> NoFwd]
    /\ latest = NoProc
    /\ query = [p \in Procs |-> NoQuery]
    /\ held = [p \in Procs |-> Nil]

NoRequests == Quiet([p \in Procs |-> "idle"])

(***************************************************************************)
(* Initial state: Provision has run on some cache file                     *)
(***************************************************************************)
Init ==
    /\ heap = << >>
    /\ conf = Provisioned
    /\ ppc = "ready"
    /\ perr = ErrNil
    /\ lerr = Dropped
    /\ SaveIdle
    /\ file = AsFound
    /\ \E f \in DiskFiles : cache = loadDeviceCache(f)
    /\ NoRequests


(***************************************************************************)
(* sync.RWMutex (t.cacheMutex).  Lock announces the writer, which then     *)
(* waits for the active readers to leave; RLock called after the           *)
(* announcement parks the caller until that writer's Unlock, which admits  *)
(* every parked reader.  The mutex is not reentrant.                       *)
(***************************************************************************)
RLock(p) ==
    /\ IF wholder = NoProc
       THEN readers' = readers \cup {p} /\ rwait' = rwait
       ELSE rwait' = rwait \cup {p} /\ readers' = readers
    /\ wholder' = wholder

RUnlock(p) ==
    /\ readers' = readers \ {p}
    /\ UNCHANGED <<wholder, rwait>>

Lock(p) ==
    /\ wholder = NoProc
    /\ wholder' = p
    /\ UNCHANGED <<readers, rwait>>

\* Faulty variant of the wait of Lock: the writer goes on while readers
\* still hold the read lock.
HoldsLock_IgnoresReaders(p) == wholder = p

\* the write lock is held: announced and no active reader left
HoldsLock(p) == wholder = p /\ readers = {}

Unlock(p) ==
    /\ wholder' = NoProc
    /\ readers' = rwait
    /\ rwait' = {}

(***************************************************************************)
(* ServeHTTP after getDeviceByIP has returned (device d, error e): on an   *)
(* error the request is passed to next as it came, otherwise it is         *)
(* annotated first.  The steps are local to the request.                   *)
(***************************************************************************)
\* Faulty variant: on an error the identity header of the inbound request
\* is blanked before it is passed on.
Next_BlankOnError(p, d, e) ==
    /\ dev' = [dev EXCEPT ![p] = d]
    /\ err' = [err EXCEPT ![p] = e]
    /\ fwd' = [fwd EXCEPT ![p] =
                 [n |-> @.n + 1,
                  Header |-> IF IsError(e)
                             THEN HeaderSet(req[p].Header,
                                            HName(HeaderPrefix, "Device-ID"), Empty)
                             ELSE addDeviceHeaders(req[p].Header, d)]]
    /\ pc' = [pc EXCEPT ![p] = "done"]

ServeHTTP_Next(p, d, e) ==
    /\ dev' = [dev EXCEPT ![p] = d]
    /\ err' = [err EXCEPT ![p] = e]
    /\ fwd' = [fwd EXCEPT ![p] =
                 [n |-> @.n + 1,
                  Header |-> IF IsError(e) THEN req[p].Header
                             ELSE addDeviceHeaders(req[p].Header, d)]]
    /\ pc' = [pc EXCEPT ![p] = "done"]

(***************************************************************************)
(* ServeHTTP, first part: derive the client IP; hand the request on        *)
(* unchanged when it is empty.                                             *)
(***************************************************************************)
ServeHTTP_From(p, rs) ==
    /\ ppc = "ready"
    /\ pc[p] \in {"idle", "done"}
    /\ \E r \in rs :
         /\ req' = [req EXCEPT ![p] = r]
         /\ IF getClientIP(r) = Empty
            THEN /\ pc' = [pc EXCEPT ![p] = "done"]
                 /\ fwd' = [fwd EXCEPT ![p] = [n |-> 1, Header |-> r.Header]]
            ELSE /\ pc' = [pc EXCEPT ![p] = "rlock1"]
                 /\ fwd' = [fwd EXCEPT ![p] = NoFwd]
    /\ dev' = [dev EXCEPT ![p] = Nil]
    /\ err' = [err EXCEPT ![p] = ErrNil]
    /\ fetches' = [fetches EXCEPT ![p] = 0]
    /\ listed' = [listed EXCEPT ![p] = Nil]
    /\ UNCHANGED <<cache, wholder, readers, rwait, file, resp>>
    /\ UNCHANGED <<bootvars, savevars, auxvars>>

ServeHTTP(p) == ServeHTTP_From(p, Requests)

(***************************************************************************)
(* getDeviceByIP                                                           *)
(***************************************************************************)
\* t.cacheMutex.RLock() before the first lookup
getDeviceByIP_RLock1(p) ==
    /\ pc[p] = "rlock1"
    /\ RLock(p)
    /\ pc' = [pc EXCEPT ![p] = "lookup1"]
    /\ UNCHANGED <<cache, file, req, resp, listed, dev, err, fetches, fwd>>
    /\ UNCHANGED <<bootvars, savevars, auxvars>>

\* Faulty variant of the first lookup: the result of the lookup is ignored
\* and every call goes on to refresh.
Lookup1_AlwaysRefresh(p) ==
    /\ pc[p] = "lookup1"
    /\ p \in readers
    /\ RUnlock(p)
    /\ pc' = [pc EXCEPT ![p] = "fetch"]
    /\ UNCHANGED <<cache, file, req, resp, listed, dev, err, fetches, fwd>>
    /\ UNCHANGED <<bootvars, savevars, auxvars>>

\* first lookup, RUnlock, and the exists && device != nil test: return the
\* device on a hit, go on to refresh otherwise
getDeviceByIP_Lookup1(p) ==
    /\ pc[p] = "lookup1"
    /\ p \in readers
    /\ RUnlock(p)
    /\ IF Hit(cache, clientIP(p))
       THEN ServeHTTP_Next(p, cache.IPToDevice[clientIP(p)], ErrNil)
       ELSE /\ pc' = [pc EXCEPT ![p] = "fetch"]
            /\ UNCHANGED <<dev, err, fwd>>
    /\ UNCHANGED <<cache, file, req, resp, listed, fetches>>
    /\ UNCHANGED <<bootvars, savevars, auxvars>>

(***************************************************************************)
(* refreshDeviceCache                                                      *)
(***************************************************************************)
\* Faulty variant of the start of the refresh: the write lock is taken
\* before the request is sent.
Do_UnderLock(p) ==
    /\ pc[p] = "fetch"
    /\ Lock(p)
    /\ fetches' = [fetches EXCEPT ![p] = @ + 1]
    /\ pc' = [pc EXCEPT ![p] = "fetching"]
    /\ UNCHANGED <<cache, file, req, resp, listed, dev, err, fwd>>
    /\ UNCHANGED <<bootvars, savevars, auxvars>>

\* client.Do(req): the directory request leaves for the remote service
refreshDeviceCache_Do(p) ==
    /\ pc[p] = "fetch"
    /\ fetches' = [fetches EXCEPT ![p] = @ + 1]
    /\ pc' = [pc EXCEPT ![p] = "fetching"]
    /\ UNCHANGED <<cache, wholder, readers, rwait, file, req, resp, listed, dev, err, fwd>>
    /\ UNCHANGED <<bootvars, savevars, auxvars>>

\* Faulty variant of the failed fetch: the map has been cleared before the
\* outcome of the fetch is known.
Fail_MapCleared(p) ==
    /\ pc[p] = "fetching"
    /\ cache' = [cache EXCEPT !.IPToDevice = EmptyMap]
    /\ ServeHTTP_Next(p, Nil, ErrRefresh)
    /\ UNCHANGED <<wholder, readers, rwait, file, req, resp, listed, fetches>>
    /\ UNCHANGED <<bootvars, savevars, auxvars>>

\* transport error, status other than 200, unreadable or undecodable body:
\* refreshDeviceCache returns the error, getDeviceByIP wraps and returns it
refreshDeviceCache_Fail(p) ==
    /\ pc[p] = "fetching"
    /\ ServeHTTP_Next(p, Nil, ErrRefresh)
    /\ UNCHANGED <<cache, wholder, readers, rwait, file, req, resp, listed, fetches>>
    /\ UNCHANGED <<bootvars, savevars, auxvars>>

\* a 200 response whose body decodes into devicesResp
refreshDeviceCache_OK(p) ==
    /\ pc[p] = "fetching"
    /\ \E r \in Responses :
         /\ resp' = [resp EXCEPT ![p] = r]
         /\ listed' = [listed EXCEPT ![p] = Listed(r.Devices, clientIP(p))]
    /\ pc' = [pc EXCEPT ![p] = "lock"]
    /\ UNCHANGED <<cache, wholder, readers, rwait, file, req, dev, err, fetches, fwd>>
    /\ UNCHANGED <<bootvars, savevars, auxvars>>

\* t.cacheMutex.Lock(); defer t.cacheMutex.Unlock()
refreshDeviceCache_Lock(p) ==
    /\ pc[p] = "lock"
    /\ Lock(p)
    /\ pc' = [pc EXCEPT ![p] = "swap"]
    /\ UNCHANGED <<cache, file, req, resp, listed, dev, err, fetches, fwd>>
    /\ UNCHANGED <<bootvars, savevars, auxvars>>

\* Faulty variant of the swap: the new entries are added to the map that is
\* there.
Swap_NoClear(p) ==
    /\ pc[p] = "swap"
    /\ HoldsLock(p)
    /\ cache' = [IPToDevice |-> Populate(cache.IPToDevice, resp[p].Devices, 1),
                 LastUpdate |-> resp[p].Date]
    /\ resp' = [resp EXCEPT ![p] = NoResp]
    /\ pc' = [pc EXCEPT ![p] = "save"]
    /\ UNCHANGED <<wholder, readers, rwait, file, req, listed, dev, err, fetches, fwd>>
    /\ UNCHANGED <<bootvars, savevars, auxvars>>

\* Faulty variant of the swap: LastUpdate is only set when the response has
\* a Date header.
Swap_KeepsLastUpdate(p) ==
    /\ pc[p] = "swap"
    /\ HoldsLock(p)
    /\ cache' = [IPToDevice |-> Populate(EmptyMap, resp[p].Devices, 1),
                 LastUpdate |-> IF resp[p].Date = Empty THEN cache.LastUpdate
                                ELSE resp[p].Date]
    /\ resp' = [resp EXCEPT ![p] = NoResp]
    /\ pc' = [pc EXCEPT ![p] = "save"]
    /\ UNCHANGED <<wholder, readers, rwait, file, req, listed, dev, err, fetches, fwd>>
    /\ UNCHANGED <<bootvars, savevars, auxvars>>

\* clear the map, populate it from the response, set LastUpdate: one step,
\* as nobody reads the snapshot while the write lock is held (the steps are
\* taken one by one in SpecSwap below)
refreshDeviceCache_Swap(p) ==
    /\ pc[p] = "swap"
    /\ HoldsLock(p)
    /\ cache' = [IPToDevice |-> Populate(EmptyMap, resp[p].Devices, 1),
                 LastUpdate |-> resp[p].Date]
    /\ resp' = [resp EXCEPT ![p] = NoResp]
    /\ pc' = [pc EXCEPT ![p] = "save"]
    /\ UNCHANGED <<wholder, readers, rwait, file, req, listed, dev, err, fetches, fwd>>
    /\ UNCHANGED <<bootvars, savevars, auxvars>>

\* Lock has returned; t.deviceCache.IPToDevice = make(map[string]*Device)
refreshDeviceCache_Clear(p) ==
    /\ pc[p] = "swap"
    /\ HoldsLock(p)
    /\ cache' = [cache EXCEPT !.IPToDevice = EmptyMap]
    /\ pc' = [pc EXCEPT ![p] = "populate"]
    /\ UNCHANGED <<wholder, readers, rwait, file, req, resp, listed, dev, err, fetches, fwd>>
    /\ UNCHANGED <<bootvars, savevars, auxvars>>

\* one turn of the loop over devicesResp.Devices: the addresses of the next
\* device are entered; resp keeps the devices still to come
refreshDeviceCache_Populate(p) ==
    /\ pc[p] = "populate"
    /\ resp[p].Devices # << >>
    /\ cache' = [cache EXCEPT !.IPToDevice = AddAddresses(@, Head(resp[p].Devices), 1)]
    /\ resp' = [resp EXCEPT ![p].Devices = Tail(@)]
    /\ UNCHANGED <<wholder, readers, rwait, file, pc, req, listed, dev, err, fetches, fwd>>
    /\ UNCHANGED <<bootvars, savevars, auxvars>>

\* the loop is over: t.deviceCache.LastUpdate = resp.Header.Get("Date")
refreshDeviceCache_LastUpdate(p) ==
    /\ pc[p] = "populate"
    /\ resp[p].Devices = << >>
    /\ cache' = [cache EXCEPT !.LastUpdate = resp[p].Date]
    /\ resp' = [resp EXCEPT ![p] = NoResp]
    /\ pc' = [pc EXCEPT ![p] = "save"]
    /\ UNCHANGED <<wholder, readers, rwait, file, req, listed, dev, err, fetches, fwd>>
    /\ UNCHANGED <<bootvars, savevars, auxvars>>

(***************************************************************************)
(* saveDeviceCache, called by refreshDeviceCache with the write lock held  *)
(***************************************************************************)
\* os.MkdirAll fails: saveDeviceCache returns the error, refreshDeviceCache
\* logs it and returns nil, the deferred Unlock runs
saveDeviceCache_MkdirAllFail(p) ==
    /\ pc[p] = "save"
    /\ Unlock(p)
    /\ pc' = [pc EXCEPT ![p] = "rlock2"]
    /\ UNCHANGED <<cache, file, req, resp, listed, dev, err, fetches, fwd>>
    /\ UNCHANGED <<bootvars, savevars, auxvars>>

\* os.MkdirAll succeeds and saveDeviceCache calls t.cacheMutex.RLock().  The
\* marshal, the file write and the return follow it (the steps of SpecSave
\* below).  Called by refreshDeviceCache, as in Spec, the caller is never
\* admitted to them (see SaveNeverAdmitted).
saveDeviceCache_RLock(p) ==
    /\ pc[p] = "save"
    /\ RLock(p)
    /\ pc' = [pc EXCEPT ![p] = "save_marshal"]
    /\ UNCHANGED <<cache, file, req, resp, listed, dev, err, fetches, fwd>>
    /\ UNCHANGED <<bootvars, savevars, auxvars>>

(***************************************************************************)
(* getDeviceByIP after the refresh                                         *)
(***************************************************************************)
getDeviceByIP_RLock2(p) ==
    /\ pc[p] = "rlock2"
    /\ RLock(p)
    /\ pc' = [pc EXCEPT ![p] = "lookup2"]
    /\ UNCHANGED <<cache, file, req, resp, listed, dev, err, fetches, fwd>>
    /\ UNCHANGED <<bootvars, savevars, auxvars>>

getDeviceByIP_Lookup2(p) ==
    /\ pc[p] = "lookup2"
    /\ p \in readers
    /\ RUnlock(p)
    /\ IF Hit(cache, clientIP(p))
       THEN ServeHTTP_Next(p, cache.IPToDevice[clientIP(p)], ErrNil)
       ELSE ServeHTTP_Next(p, Nil, ErrNotFound)
    /\ UNCHANGED <<cache, file, req, resp, listed, fetches>>
    /\ UNCHANGED <<bootvars, savevars, auxvars>>

Next ==
    \E p \in Procs :
        \/ ServeHTTP(p)
        \/ getDeviceByIP_RLock1(p)
        \/ getDeviceByIP_Lookup1(p)
        \/ refreshDeviceCache_Do(p)
        \/ refreshDeviceCache_Fail(p)
        \/ refreshDeviceCache_OK(p)
        \/ refreshDeviceCache_Lock(p)
        \/ refreshDeviceCache_Swap(p)
        \/ saveDeviceCache_MkdirAllFail(p)
        \/ saveDeviceCache_RLock(p)
        \/ getDeviceByIP_RLock2(p)
        \/ getDeviceByIP_Lookup2(p)

Spec == Init /\ [][Next]_vars

(***************************************************************************)
(* The same system with the scheduling of goroutines: a goroutine that can *)
(* take a step of getDeviceByIP outside the remote fetch eventually takes  *)
(* it, and a goroutine calling Lock gets the lock if it is free again and  *)
(* again.  Nothing is assumed about the remote service or about new        *)
(* requests arriving.                                                      *)
(***************************************************************************)
Runs(p) ==
    \/ getDeviceByIP_RLock1(p)
    \/ getDeviceByIP_Lookup1(p)
    \/ refreshDeviceCache_Swap(p)
    \/ saveDeviceCache_MkdirAllFail(p)
    \/ saveDeviceCache_RLock(p)
    \/ getDeviceByIP_RLock2(p)
    \/ getDeviceByIP_Lookup2(p)

SpecLive ==
    /\ Spec
    /\ \A p \in Procs : WF_vars(Runs(p)) /\ SF_vars(refreshDeviceCache_Lock(p))

(***************************************************************************)
(* The same system with the order of the remote service's answers          *)
(* recorded: latest is the goroutine whose fetch was answered last.        *)
(***************************************************************************)
\* a 200 response whose body decodes into devicesResp, as above
refreshDeviceCache_OK_Ordered(p) ==
    /\ pc[p] = "fetching"
    /\ \E r \in Responses :
         /\ resp' = [resp EXCEPT ![p] = r]
         /\ listed' = [listed EXCEPT ![p] = Listed(r.Devices, clientIP(p))]
    /\ pc' = [pc EXCEPT ![p] = "lock"]
    /\ latest' = p
    /\ UNCHANGED <<cache, wholder, readers, rwait, file, req, dev, err, fetches, fwd>>
    /\ UNCHANGED <<bootvars, savevars, query, heap, held>>

NextOrder ==
    \E p \in Procs :
        \/ ServeHTTP(p)
        \/ getDeviceByIP_RLock1(p)
        \/ getDeviceByIP_Lookup1(p)
        \/ refreshDeviceCache_Do(p)
        \/ refreshDeviceCache_Fail(p)
        \/ refreshDeviceCache_OK_Ordered(p)
        \/ refreshDeviceCache_Lock(p)
        \/ refreshDeviceCache_Swap(p)
        \/ saveDeviceCache_MkdirAllFail(p)
        \/ saveDeviceCache_RLock(p)
        \/ getDeviceByIP_RLock2(p)
        \/ getDeviceByIP_Lookup2(p)

SpecOrder == Init /\ [][NextOrder]_vars

(***************************************************************************)
(* The same system serving two requests from peer a2 that differ only in   *)
(* the values of the headers carrying the configured prefix.               *)
(***************************************************************************)
Spoofed2 == (HName(HeaderPrefix, "Device-ID") :> <<"evil2">>)
            @@ (HName(HeaderPrefix, "Device-Addresses") :> <<"evil2">>)

TwinRequests ==
    { [Header |-> Spoofed, RemoteAddr |-> Peer2],
      [Header |-> Spoofed2, RemoteAddr |-> Peer2] }

NextTwin ==
    \E p \in Procs :
        \/ ServeHTTP_From(p, TwinRequests)
        \/ getDeviceByIP_RLock1(p)
        \/ getDeviceByIP_Lookup1(p)
        \/ refreshDeviceCache_Do(p)
        \/ refreshDeviceCache_Fail(p)
        \/ refreshDeviceCache_OK(p)
        \/ refreshDeviceCache_Lock(p)
        \/ refreshDeviceCache_Swap(p)
        \/ saveDeviceCache_MkdirAllFail(p)
        \/ saveDeviceCache_RLock(p)
        \/ getDeviceByIP_RLock2(p)
        \/ getDeviceByIP_Lookup2(p)

SpecTwin == Init /\ [][NextTwin]_vars

(***************************************************************************)
(* The same system with the snapshot swap taken field by field, for        *)
(* requests that all ask for address a2.                                   *)
(***************************************************************************)
SwapRequests == {r \in Requests : getClientIP(r) = A2}

NextSwap ==
    \E p \in Procs :
        \/ ServeHTTP_From(p, SwapRequests)
        \/ getDeviceByIP_RLock1(p)
        \/ getDeviceByIP_Lookup1(p)
        \/ refreshDeviceCache_Do(p)
        \/ refreshDeviceCache_Fail(p)
        \/ refreshDeviceCache_OK(p)
        \/ refreshDeviceCache_Lock(p)
        \/ refreshDeviceCache_Clear(p)
        \/ refreshDeviceCache_Populate(p)
        \/ refreshDeviceCache_LastUpdate(p)
        \/ saveDeviceCache_MkdirAllFail(p)
        \/ saveDeviceCache_RLock(p)
        \/ getDeviceByIP_RLock2(p)
        \/ getDeviceByIP_Lookup2(p)

SpecSwap == Init /\ [][NextSwap]_vars

(***************************************************************************)
(* The same system with the swap in one step, for requests that all ask    *)
(* for address a1: what a refresh installs depends on the fetched          *)
(* directory only, never on the address asked for.                         *)
(***************************************************************************)
InstallRequests == {r \in Requests : getClientIP(r) = A1}

NextInstall ==
    \E p \in Procs :
        \/ ServeHTTP_From(p, InstallRequests)
        \/ getDeviceByIP_RLock1(p)
        \/ getDeviceByIP_Lookup1(p)
        \/ refreshDeviceCache_Do(p)
        \/ refreshDeviceCache_Fail(p)
        \/ refreshDeviceCache_OK(p)
        \/ refreshDeviceCache_Lock(p)
        \/ refreshDeviceCache_Swap(p)
        \/ saveDeviceCache_MkdirAllFail(p)
        \/ saveDeviceCache_RLock(p)
        \/ getDeviceByIP_RLock2(p)
        \/ getDeviceByIP_Lookup2(p)

SpecInstall == Init /\ [][NextInstall]_vars

(***************************************************************************)
(* Provision, from a new module instance, and the first requests served    *)
(* from what it loaded.  The cache file is whatever is found at the        *)
(* configured path.                                                        *)
(***************************************************************************)
\* the files of DiskFiles, a file that cannot be read, and one that is not JSON
StartFiles == DiskFiles \cup {[kind |-> "unreadable"], [kind |-> "syntax"]}

\* inbound requests for getClientIP: each header absent, present and empty,
\* or with a value; a peer address with a port, without one, or none
AllRequests ==
    LET xffs == {Empty, A2, <<" ">> \o A2 \o <<" ", ",", " ">> \o A1, <<",">> \o A1}
        xris == {Empty, A1, <<" ">> \o A2}
        hdrs == {NoHeader}
                \cup {(XForwardedFor :> x) : x \in xffs}
                \cup {(XRealIP :> y) : y \in xris}
                \cup {(XForwardedFor :> x) @@ (XRealIP :> y) : x \in xffs, y \in xris}
    IN  [Header : hdrs, RemoteAddr : {Empty, Peer1, A2}]

\* Faulty variant of Provision: the error of loadDeviceCache is returned.
Provision_ReturnsLoadError ==
    /\ ppc = "new"
    /\ conf' = [conf EXCEPT
                  !.HeaderPrefix = IF @ = "" THEN HeaderPrefix ELSE @,
                  !.CacheFile = IF @ = "" THEN CacheFile ELSE @]
    /\ IF conf.Tailnet = "" \/ conf.APIKey = ""
       THEN /\ perr' = IF conf.Tailnet = "" THEN "tailnet is required"
                       ELSE "api_key is required"
            /\ ppc' = "failed"
            /\ UNCHANGED <<cache, lerr>>
       ELSE /\ cache' = loadDeviceCache(file)
            /\ lerr' = loadErr(file)
            /\ perr' = loadErr(file)
            /\ ppc' = IF IsError(loadErr(file)) THEN "failed" ELSE "ready"
    /\ UNCHANGED <<wholder, readers, rwait, file, pc, req, resp, listed, dev, err, fetches, fwd>>
    /\ UNCHANGED <<savevars, auxvars>>

\* Provision: defaults, the required fields, the empty cache, the load
Provision ==
    /\ ppc = "new"
    /\ conf' = [conf EXCEPT
                  !.HeaderPrefix = IF @ = "" THEN HeaderPrefix ELSE @,
                  !.CacheFile = IF @ = "" THEN CacheFile ELSE @]
    /\ IF conf.Tailnet = "" \/ conf.APIKey = ""
       THEN /\ perr' = IF conf.Tailnet = "" THEN "tailnet is required"
                       ELSE "api_key is required"
            /\ ppc' = "failed"
            /\ UNCHANGED <<cache, lerr>>
       ELSE /\ cache' = loadDeviceCache(file)
            /\ lerr' = loadErr(file)
            /\ perr' = ErrNil
            /\ ppc' = "ready"
    /\ UNCHANGED <<wholder, readers, rwait, file, pc, req, resp, listed, dev, err, fetches, fwd>>
    /\ UNCHANGED <<savevars, auxvars>>

InitProvision ==
    /\ heap = << >>
    /\ conf \in Configs
    /\ ppc = "new"
    /\ perr = ErrNil
    /\ lerr = ErrNil
    /\ SaveIdle
    /\ file \in StartFiles
    /\ cache = Nil
    /\ NoRequests

\* requests are served one at a time, up to the first miss
NextProvision ==
    \/ Provision
    \/ \E p \in {1} :
          \/ ServeHTTP_From(p, AllRequests)
          \/ getDeviceByIP_RLock1(p)
          \/ getDeviceByIP_Lookup1(p)

SpecProvision == InitProvision /\ [][NextProvision]_vars

(***************************************************************************)
(* saveDeviceCache called on its own (the write lock not held), the        *)
(* process stopping or crashing at any point, and the next Provision       *)
(* loading what is on disk.                                                *)
(***************************************************************************)
\* the snapshots saved: every non-empty directory, with a Date, without
\* one, and with a Date holding a byte that is not UTF-8; and a map with a
\* nil record
SaveSnapshots ==
    {[IPToDevice |-> Populate(EmptyMap, ds, 1), LastUpdate |-> d] :
        ds \in Directories \ {<< >>}, d \in Dates \cup {<<"t", InvalidByte>>}}
    \cup {[IPToDevice |-> (A1 :> Nil) @@ (A2 :> D1), LastUpdate |-> <<"t1">>]}

\* the cache file before the save: none, or an older snapshot
OldFiles == {f \in DiskFiles : f.kind \in {"absent", "json"}}

\* os.MkdirAll fails: saveDeviceCache returns the error
saveDeviceCache_MkdirAllErr(p) ==
    /\ pc[p] = "save"
    /\ wholder # p
    /\ serr' = "failed to create cache directory"
    /\ pc' = [pc EXCEPT ![p] = "saved"]
    /\ UNCHANGED <<cache, wholder, readers, rwait, file, req, resp, listed, dev, err, fetches, fwd>>
    /\ UNCHANGED <<bootvars, data, saved>>
    /\ UNCHANGED auxvars

\* the read lock is granted: json.MarshalIndent, RUnlock
saveDeviceCache_Marshal(p) ==
    /\ pc[p] = "save_marshal"
    /\ p \in readers
    /\ data' = [bytes |-> MarshalIndent(cache), snapshot |-> cache]
    /\ RUnlock(p)
    /\ pc' = [pc EXCEPT ![p] = "save_write"]
    /\ UNCHANGED <<cache, file, req, resp, listed, dev, err, fetches, fwd>>
    /\ UNCHANGED <<bootvars, serr, saved>>
    /\ UNCHANGED auxvars

\* os.WriteFile cannot open the file: the error is returned
saveDeviceCache_OpenFail(p) ==
    /\ pc[p] = "save_write"
    /\ serr' = "failed to write cache file"
    /\ pc' = [pc EXCEPT ![p] = "saved"]
    /\ UNCHANGED <<cache, wholder, readers, rwait, file, req, resp, listed, dev, err, fetches, fwd>>
    /\ UNCHANGED <<bootvars, data, saved>>
    /\ UNCHANGED auxvars

\* os.WriteFile opens the file with O_TRUNC: it is empty now
saveDeviceCache_Truncate(p) ==
    /\ pc[p] = "save_write"
    /\ file' = [kind |-> "syntax"]
    /\ pc' = [pc EXCEPT ![p] = "save_writing"]
    /\ UNCHANGED <<cache, wholder, readers, rwait, req, resp, listed, dev, err, fetches, fwd>>
    /\ UNCHANGED <<bootvars, savevars, auxvars>>

\* os.WriteFile fails after writing a part (the file stays cut short)
saveDeviceCache_WriteFail(p) ==
    /\ pc[p] = "save_writing"
    /\ serr' = "failed to write cache file"
    /\ pc' = [pc EXCEPT ![p] = "saved"]
    /\ UNCHANGED <<cache, wholder, readers, rwait, file, req, resp, listed, dev, err, fetches, fwd>>
    /\ UNCHANGED <<bootvars, data, saved>>
    /\ UNCHANGED auxvars

\* os.WriteFile writes the bytes and closes the file: return nil
saveDeviceCache_Write(p) ==
    /\ pc[p] = "save_writing"
    /\ file' = data.bytes
    /\ saved' = data.snapshot
    /\ pc' = [pc EXCEPT ![p] = "saved"]
    /\ UNCHANGED <<cache, wholder, readers, rwait, req, resp, listed, dev, err, fetches, fwd>>
    /\ UNCHANGED <<bootvars, data, serr>>
    /\ UNCHANGED auxvars

\* the process stops or is killed: what is in memory is gone, the file
\* stays as it is, and a new instance is to be provisioned
Crash ==
    /\ ppc = "ready"
    /\ ppc' = "new"
    /\ cache' = Nil
    /\ wholder' = NoProc
    /\ readers' = {}
    /\ rwait' = {}
    /\ pc' = [p \in Procs |-> "idle"]
    /\ data' = NoData
    /\ serr' = ErrNil
    /\ lerr' = ErrNil
    /\ UNCHANGED <<file, req, resp, listed, dev, err, fetches, fwd, conf, perr, saved>>
    /\ UNCHANGED auxvars

InitSave ==
    /\ heap = << >>
    /\ conf = Provisioned
    /\ ppc = "ready"
    /\ perr = ErrNil
    /\ lerr = Dropped
    /\ SaveIdle
    /\ file \in OldFiles
    /\ cache \in SaveSnapshots
    /\ Quiet([p \in Procs |-> IF p = 1 THEN "save" ELSE "idle"])

NextSave ==
    \/ Crash
    \/ Provision
    \/ \E p \in Procs :
          \/ saveDeviceCache_MkdirAllErr(p)
          \/ saveDeviceCache_RLock(p)
          \/ saveDeviceCache_Marshal(p)
          \/ saveDeviceCache_OpenFail(p)
          \/ saveDeviceCache_Truncate(p)
          \/ saveDeviceCache_WriteFail(p)
          \/ saveDeviceCache_Write(p)

SpecSave == InitSave /\ [][NextSave]_vars

(***************************************************************************)
(* The direct-lookup variant (lines 468-759): no cache, every request asks *)
(* the remote service about its own client address.                        *)
(***************************************************************************)
\* WhoIsResponse, decoded: Node and UserProfile.  Node.Name, User, Hostname,
\* OS and Expired and UserProfile.ID and DisplayName are copied exactly like
\* the fields kept here.
W1 == [Node |-> [ID |-> <<"n1">>, Online |-> TRUE, Addresses |-> <<A1>>,
                 Tags |-> <<<<"tag:a">>, <<"tag:b">>>>],
       UserProfile |-> [LoginName |-> <<"u1">>]]
W2 == [Node |-> [ID |-> <<"n2">>, Online |-> FALSE, Addresses |-> <<A1, A2>>,
                 Tags |-> << >>],
       UserProfile |-> [LoginName |-> Empty]]
W3 == [Node |-> [ID |-> <<"n3">>, Online |-> TRUE, Addresses |-> << >>,
                 Tags |-> <<<<"tag:a">>>>],
       UserProfile |-> [LoginName |-> <<"u3">>]]

\* the 200 answers of the whois endpoint
WhoIsResponses == {W1, W2, W3}

\* addUserHeaders adds Tailscale user information to request headers
addUserHeaders(h, whois) ==
    LET h1 == HeaderSet(h, HName(conf.HeaderPrefix, "Node-ID"), whois.Node.ID)
        h2 == HeaderSet(h1, HName(conf.HeaderPrefix, "Node-Online"),
                        SprintfBool(whois.Node.Online))
        h3 == HeaderSet(h2, HName(conf.HeaderPrefix, "User-LoginName"),
                        whois.UserProfile.LoginName)
        h4 == IF Len(whois.Node.Addresses) > 0
              THEN HeaderSet(h3, HName(conf.HeaderPrefix, "Node-Addresses"),
                             Join(whois.Node.Addresses, Comma))
              ELSE h3
    IN  IF Len(whois.Node.Tags) > 0
        THEN HeaderSet(h4, HName(conf.HeaderPrefix, "Node-Tags"),
                       Join(whois.Node.Tags, Comma))
        ELSE h4

\* a control byte (a tab inside a header value) and the fragment sign
CTL == "\t"
Hash == "#"

\* http.NewRequest("GET", fmt.Sprintf(".../whois?addr=%s", Tailnet, clientIP)):
\* the address is put into the URL as it is.  url.Parse refuses a URL with
\* a control byte, and cuts the URL at the first "#": what follows is the
\* fragment, which is not sent.  [ok, addr]: addr is the addr parameter of
\* the request that would be sent.
NewRequest(ip) ==
    IF \E i \in 1..Len(ip) : ip[i] = CTL THEN [ok |-> FALSE, addr |-> Empty]
    ELSE IF Index(ip, Hash) # 0
         THEN [ok |-> TRUE, addr |-> SubSeq(ip, 1, Index(ip, Hash) - 1)]
         ELSE [ok |-> TRUE, addr |-> ip]

\* client-supplied headers carrying the configured prefix
SpoofedNode == (HName(HeaderPrefix, "Node-Tags") :> <<"tag:admin">>)
               @@ (HName(HeaderPrefix, "Node-Addresses") :> <<"evil">>)

\* inbound requests: a forwarded address; forwarded values with a "#" and
\* with a tab inside; a peer sending identity headers of its own; no peer
\* address
WhoisRequests ==
    { [Header |-> (XForwardedFor :> A1), RemoteAddr |-> Peer2],
      [Header |-> (XForwardedFor :> (A1 \o <<Hash, "x">>)), RemoteAddr |-> Peer2],
      [Header |-> (XRealIP :> (A2 \o <<CTL, "x">>)), RemoteAddr |-> Peer2],
      [Header |-> SpoofedNode, RemoteAddr |-> Peer1],
      [Header |-> NoHeader, RemoteAddr |-> Empty] }

ErrNewRequest == "failed to create request"
ErrWhois == "failed to get Tailscale user info"

\* ServeHTTP after getTailscaleUser has returned (whois w, error e)
ServeHTTP_whois_Next(p, w, e) ==
    /\ dev' = [dev EXCEPT ![p] = w]
    /\ err' = [err EXCEPT ![p] = e]
    /\ fwd' = [fwd EXCEPT ![p] =
                 [n |-> @.n + 1,
                  Header |-> IF IsError(e) THEN req[p].Header
                             ELSE addUserHeaders(req[p].Header, w)]]
    /\ pc' = [pc EXCEPT ![p] = "done"]

\* ServeHTTP, first part: derive the client IP; hand the request on
\* unchanged when it is empty
ServeHTTP_whois(p) ==
    /\ ppc = "ready"
    /\ pc[p] \in {"idle", "done"}
    /\ \E r \in WhoisRequests :
         /\ req' = [req EXCEPT ![p] = r]
         /\ IF getClientIP_whois(r) = Empty
            THEN /\ pc' = [pc EXCEPT ![p] = "done"]
                 /\ fwd' = [fwd EXCEPT ![p] = [n |-> 1, Header |-> r.Header]]
            ELSE /\ pc' = [pc EXCEPT ![p] = "whois"]
                 /\ fwd' = [fwd EXCEPT ![p] = NoFwd]
    /\ dev' = [dev EXCEPT ![p] = Nil]
    /\ err' = [err EXCEPT ![p] = ErrNil]
    /\ fetches' = [fetches EXCEPT ![p] = 0]
    /\ query' = [query EXCEPT ![p] = NoQuery]
    /\ UNCHANGED <<cache, wholder, readers, rwait, file, resp, listed, latest, heap, held>>
    /\ UNCHANGED <<bootvars, savevars>>

\* http.NewRequest returns an error: getTailscaleUser returns it, nothing
\* is sent
getTailscaleUser_NewRequestFail(p) ==
    /\ pc[p] = "whois"
    /\ ~NewRequest(getClientIP_whois(req[p])).ok
    /\ ServeHTTP_whois_Next(p, Nil, ErrNewRequest)
    /\ UNCHANGED <<cache, wholder, readers, rwait, file, req, resp, listed, fetches>>
    /\ UNCHANGED <<bootvars, savevars, auxvars>>

\* client.Do(req): the whois request leaves for the remote service
getTailscaleUser_Do(p) ==
    /\ pc[p] = "whois"
    /\ NewRequest(getClientIP_whois(req[p])).ok
    /\ query' = [query EXCEPT ![p] =
                   [sent |-> TRUE, addr |-> NewRequest(getClientIP_whois(req[p])).addr]]
    /\ fetches' = [fetches EXCEPT ![p] = @ + 1]
    /\ pc' = [pc EXCEPT ![p] = "asking"]
    /\ UNCHANGED <<cache, wholder, readers, rwait, file, req, resp, listed, dev, err, fwd>>
    /\ UNCHANGED <<bootvars, savevars, latest, heap, held>>

\* transport error, status other than 200, unreadable or undecodable body
getTailscaleUser_Fail(p) ==
    /\ pc[p] = "asking"
    /\ ServeHTTP_whois_Next(p, Nil, ErrWhois)
    /\ UNCHANGED <<cache, wholder, readers, rwait, file, req, resp, listed, fetches>>
    /\ UNCHANGED <<bootvars, savevars, auxvars>>

\* a 200 response whose body decodes into whois
getTailscaleUser_OK(p) ==
    /\ pc[p] = "asking"
    /\ \E w \in WhoIsResponses : ServeHTTP_whois_Next(p, w, ErrNil)
    /\ UNCHANGED <<cache, wholder, readers, rwait, file, req, resp, listed, fetches>>
    /\ UNCHANGED <<bootvars, savevars, auxvars>>

\* Provision of this variant has set the default prefix; there is no cache
InitWhois ==
    /\ heap = << >>
    /\ conf = Provisioned
    /\ ppc = "ready"
    /\ perr = ErrNil
    /\ lerr = Dropped
    /\ SaveIdle
    /\ file = AsFound
    /\ cache = Nil
    /\ NoRequests

NextWhois ==
    \E p \in Procs :
        \/ ServeHTTP_whois(p)
        \/ getTailscaleUser_NewRequestFail(p)
        \/ getTailscaleUser_Do(p)
        \/ getTailscaleUser_Fail(p)
        \/ getTailscaleUser_OK(p)

SpecWhois == InitWhois /\ [][NextWhois]_vars

(***************************************************************************)
(* The cached variant with the records as objects: getDeviceByIP returns a *)
(* *Device, a pointer to a record that the snapshot shares with every      *)
(* caller it was handed to, and ServeHTTP reads the record through that    *)
(* pointer after the read lock is released.  heap[i] is the record a       *)
(* pointer Ptr(i) points to, the map holds pointers, Nil is the nil        *)
(* pointer.  No more than MaxHeap records are allocated.                   *)
(***************************************************************************)
Ptr(i) == [at |-> i]
Deref(ptr) == heap[ptr.at]

Keys == <<A1, A2>>

\* json.Unmarshal into the empty map (loadDeviceCache): a new record is
\* allocated for every entry that is not null.  [heap, map]
RECURSIVE Decode(_, _, _)
Decode(m, i, st) ==
    IF i > Len(Keys) THEN st
    ELSE IF Keys[i] \notin DOMAIN m THEN Decode(m, i + 1, st)
    ELSE IF m[Keys[i]] = Nil
         THEN Decode(m, i + 1, [st EXCEPT !.map = (Keys[i] :> Nil) @@ @])
         ELSE Decode(m, i + 1,
                     [heap |-> Append(st.heap, m[Keys[i]]),
                      map |-> (Keys[i] :> Ptr(Len(st.heap) + 1)) @@ st.map])

\* the inner loop of refreshDeviceCache: IPToDevice[addr] = device, device
\* being the pointer ptr
RECURSIVE AddPointers(_, _, _, _)
AddPointers(m, ptr, addrs, i) ==
    IF i > Len(addrs) THEN m
    ELSE AddPointers([a \in DOMAIN m \cup {addrs[i]} |->
                         IF a = addrs[i] THEN ptr ELSE m[a]],
                     ptr, addrs, i + 1)

\* the outer loop: device := &devicesResp.Devices[i], the records of the
\* response lying at base+1, base+2, ...
RECURSIVE PopulatePointers(_, _, _, _)
PopulatePointers(m, devices, i, base) ==
    IF i > Len(devices) THEN m
    ELSE PopulatePointers(AddPointers(m, Ptr(base + i), devices[i].Addresses, 1),
                          devices, i + 1, base)

\* first lookup, RUnlock, and the exists && device != nil test: return the
\* pointer on a hit, go on to refresh otherwise
getDeviceByIP_Return1(p) ==
    /\ pc[p] = "lookup1"
    /\ p \in readers
    /\ RUnlock(p)
    /\ IF Hit(cache, clientIP(p))
       THEN /\ dev' = [dev EXCEPT ![p] = cache.IPToDevice[clientIP(p)]]
            /\ held' = [held EXCEPT ![p] = Deref(cache.IPToDevice[clientIP(p)])]
            /\ pc' = [pc EXCEPT ![p] = "annotate"]
       ELSE /\ pc' = [pc EXCEPT ![p] = "fetch"]
            /\ UNCHANGED <<dev, held>>
    /\ UNCHANGED <<cache, file, req, resp, listed, err, fetches, fwd>>
    /\ UNCHANGED <<bootvars, savevars, latest, query, heap>>

\* a 200 response whose body decodes into devicesResp (with a Date header)
refreshDeviceCache_OK_Alloc(p) ==
    /\ pc[p] = "fetching"
    /\ \E ds \in Directories : resp' = [resp EXCEPT ![p] = [Devices |-> ds, Date |-> <<"t1">>]]
    /\ pc' = [pc EXCEPT ![p] = "lock"]
    /\ UNCHANGED <<cache, wholder, readers, rwait, file, req, listed, dev, err, fetches, fwd>>
    /\ UNCHANGED <<bootvars, savevars, auxvars>>

\* Faulty variant of the swap: the response is decoded into the records
\* allocated first, which are overwritten.
Swap_ReusesRecords(p) ==
    /\ pc[p] = "swap"
    /\ HoldsLock(p)
    /\ Len(heap) + Len(resp[p].Devices) <= MaxHeap
    /\ heap' = [i \in 1..(IF Len(heap) > Len(resp[p].Devices) THEN Len(heap)
                          ELSE Len(resp[p].Devices)) |->
                  IF i <= Len(resp[p].Devices) THEN resp[p].Devices[i] ELSE heap[i]]
    /\ cache' = [IPToDevice |-> PopulatePointers(EmptyMap, resp[p].Devices, 1, 0),
                 LastUpdate |-> resp[p].Date]
    /\ resp' = [resp EXCEPT ![p] = NoResp]
    /\ pc' = [pc EXCEPT ![p] = "save"]
    /\ UNCHANGED <<wholder, readers, rwait, file, req, listed, dev, err, fetches, fwd>>
    /\ UNCHANGED <<bootvars, savevars, latest, query, held>>

\* the swap: devicesResp is a local of this call, so its records are new
\* objects; the new map points to them
refreshDeviceCache_SwapAlloc(p) ==
    /\ pc[p] = "swap"
    /\ HoldsLock(p)
    /\ Len(heap) + Len(resp[p].Devices) <= MaxHeap
    /\ heap' = heap \o resp[p].Devices
    /\ cache' = [IPToDevice |-> PopulatePointers(EmptyMap, resp[p].Devices, 1, Len(heap)),
                 LastUpdate |-> resp[p].Date]
    /\ resp' = [resp EXCEPT ![p] = NoResp]
    /\ pc' = [pc EXCEPT ![p] = "save"]
    /\ UNCHANGED <<wholder, readers, rwait, file, req, listed, dev, err, fetches, fwd>>
    /\ UNCHANGED <<bootvars, savevars, latest, query, held>>

\* second lookup and RUnlock: the pointer, or the not-found error
getDeviceByIP_Return2(p) ==
    /\ pc[p] = "lookup2"
    /\ p \in readers
    /\ RUnlock(p)
    /\ IF Hit(cache, clientIP(p))
       THEN /\ dev' = [dev EXCEPT ![p] = cache.IPToDevice[clientIP(p)]]
            /\ held' = [held EXCEPT ![p] = Deref(cache.IPToDevice[clientIP(p)])]
            /\ pc' = [pc EXCEPT ![p] = "annotate"]
            /\ UNCHANGED <<err, fwd>>
       ELSE /\ ServeHTTP_Next(p, Nil, ErrNotFound)
            /\ UNCHANGED held
    /\ UNCHANGED <<cache, file, req, resp, listed, fetches>>
    /\ UNCHANGED <<bootvars, savevars, latest, query, heap>>

\* ServeHTTP: t.addDeviceHeaders(r, device) reads the record behind the
\* pointer, then next.ServeHTTP; the call is over and its pointer is gone
ServeHTTP_Annotate(p) ==
    /\ pc[p] = "annotate"
    /\ fwd' = [fwd EXCEPT ![p] =
                 [n |-> @.n + 1,
                  Header |-> addDeviceHeaders(req[p].Header, Deref(dev[p]))]]
    /\ dev' = [dev EXCEPT ![p] = Nil]
    /\ held' = [held EXCEPT ![p] = Nil]
    /\ pc' = [pc EXCEPT ![p] = "done"]
    /\ UNCHANGED <<cache, wholder, readers, rwait, file, req, resp, listed, err, fetches>>
    /\ UNCHANGED <<bootvars, savevars, latest, query, heap>>

\* inbound requests, all of them for address a1
HeapRequests == {r \in Requests : getClientIP(r) = A1}

\* Provision has run on some cache file
InitHeap ==
    /\ conf = Provisioned
    /\ ppc = "ready"
    /\ perr = ErrNil
    /\ lerr = Dropped
    /\ SaveIdle
    /\ file = AsFound
    /\ \E f \in DiskFiles :
          LET c  == loadDeviceCache(f)
              st == Decode(c.IPToDevice, 1, [heap |-> << >>, map |-> EmptyMap])
          IN  /\ heap = st.heap
              /\ cache = [IPToDevice |-> st.map, LastUpdate |-> c.LastUpdate]
    /\ NoRequests

NextHeap ==
    \E p \in Procs :
        \/ ServeHTTP_From(p, HeapRequests)
        \/ getDeviceByIP_RLock1(p)
        \/ getDeviceByIP_Return1(p)
        \/ refreshDeviceCache_Do(p)
        \/ refreshDeviceCache_Fail(p)
        \/ refreshDeviceCache_OK_Alloc(p)
        \/ refreshDeviceCache_Lock(p)
        \/ refreshDeviceCache_SwapAlloc(p)
        \/ saveDeviceCache_MkdirAllFail(p)
        \/ saveDeviceCache_RLock(p)
        \/ getDeviceByIP_RLock2(p)
        \/ getDeviceByIP_Return2(p)
        \/ ServeHTTP_Annotate(p)

SpecHeap == InitHeap /\ [][NextHeap]_vars

TypeOK ==
    /\ wholder \in Procs \cup {NoProc}
    /\ readers \subseteq Procs
    /\ rwait \subseteq Procs
    /\ \A p \in Procs : fetches[p] \in 0..1 /\ fwd[p].n \in 0..1

(***************************************************************************)
(* Properties                                                              *)
(***************************************************************************)
FetchPcs == {"fetch", "fetching"}
SavePcs == {"save", "save_marshal"}

\* the call of p fetched a directory successfully
Refreshed(p) == fetches[p] = 1 /\ pc[p] \notin FetchPcs /\ err[p] # ErrRefresh

\* p is parked in RLock on the write lock that p itself holds
SelfDeadlocked(p) == wholder = p /\ p \in rwait

\* In Spec, a goroutine that reached the RLock of saveDeviceCache is parked
\* behind its own write lock and is never admitted as a reader.
SaveNeverAdmitted ==
    \A p \in Procs : pc[p] = "save_marshal" => SelfDeadlocked(p) /\ p \notin readers

\* A self-deadlocked goroutine stays so: no step releases the lock.
DeadlockIsPermanent ==
    [][\A p \in Procs : SelfDeadlocked(p) => SelfDeadlocked(p)' /\ pc'[p] = pc[p]]_vars

\* C1: when the first lookup of getDeviceByIP finds the client address in the
\* snapshot with a non-nil record, the call returns exactly that record with
\* a nil error and without having sent any request to the remote service.
C1_HitReturnsRecordNoFetch ==
    [][\A p \in Procs :
         (pc[p] = "lookup1" /\ pc'[p] # "lookup1" /\ Hit(cache, clientIP(p)))
            => /\ pc'[p] = "done"
               /\ dev'[p] = cache.IPToDevice[clientIP(p)]
               /\ err'[p] = ErrNil
               /\ fetches'[p] = 0]_vars

C1_Witness ==
    \E p \in Procs :
        /\ pc[p] = "done" /\ fetches[p] = 0
        /\ err[p] = ErrNil /\ dev[p] \in {D1, D2, D3}
        /\ Hit(cache, clientIP(p)) /\ dev[p] = cache.IPToDevice[clientIP(p)]

\* C2: a call that missed and whose refresh fetched a directory in which a
\* device lists the address returns that device's record: it is not parked
\* for ever inside the refresh, and what it returns is that record.
C2_RefreshedRecordReturned ==
    \A p \in Procs :
        (Refreshed(p) /\ listed[p] # Nil)
            => /\ ~SelfDeadlocked(p)
               /\ (pc[p] = "done" => (dev[p] = listed[p] /\ err[p] = ErrNil))

\* C3: a call that missed and whose successfully fetched directory lacks the
\* address ends in NotFound, which is not an error: the error it returns
\* is nil.
C3_NotFoundIsNotAnError ==
    \A p \in Procs :
        (Refreshed(p) /\ listed[p] = Nil /\ pc[p] = "done")
            => (dev[p] = Nil /\ ~IsError(err[p]))

\* C4: no step of a call up to and including the failure of its remote fetch
\* changes the snapshot (mapping and LastUpdate) or the cache file, and the
\* failed fetch makes getDeviceByIP return a nil device and an error.
C4_FailedFetchLeavesSnapshot ==
    [][\A p \in Procs :
         /\ (pc[p] \in {"idle", "done", "rlock1", "lookup1"} \cup FetchPcs
               /\ pc'[p] # pc[p])
               => (cache' = cache /\ file' = file)
         /\ (pc[p] = "fetching" /\ pc'[p] = "done")
               => (dev'[p] = Nil /\ IsError(err'[p]))]_vars

C4_Witness ==
    \E p \in Procs :
        /\ pc[p] = "done" /\ err[p] = ErrRefresh /\ fetches[p] = 1
        /\ file = AsFound /\ cache.IPToDevice # EmptyMap

\* C5: every request is passed to the next handler exactly once: a request
\* that ServeHTTP has finished was passed on once, one still being served
\* has not been passed on yet and is not parked for ever.
C5_EveryRequestForwardedOnce ==
    \A p \in Procs :
        /\ pc[p] = "done" => fwd[p].n = 1
        /\ pc[p] \notin {"idle", "done"} => (fwd[p].n = 0 /\ ~SelfDeadlocked(p))

\* C6: when getDeviceByIP ends in an error (failed fetch or not found), the
\* headers of the request passed to the next handler are exactly the inbound
\* headers.
C6_ErrorLeavesHeaders ==
    \A p \in Procs :
        (pc[p] = "done" /\ IsError(err[p]))
            => (fwd[p].n = 1 /\ fwd[p].Header = req[p].Header)

C6_Witness ==
    \E p, q \in Procs :
        /\ pc[p] = "done" /\ err[p] = ErrNotFound /\ req[p].Header = Spoofed
        /\ fwd[p].Header = Spoofed
        /\ pc[q] = "done" /\ err[q] = ErrRefresh

\* C7: single flight: at most one remote directory fetch is in flight.
C7_SingleFlight ==
    Cardinality({p \in Procs : pc[p] = "fetching"}) <= 1

\* C8: a goroutine in the remote fetch of a refresh holds no lock on the
\* cache and waits for none, and a goroutine parked in the RLock of its
\* first lookup is never waiting for a lock holder that is in its fetch.
C8_FetchOutsideLock ==
    /\ \A p \in Procs :
          pc[p] \in FetchPcs => (wholder # p /\ p \notin readers /\ p \notin rwait)
    /\ \A q \in Procs :
          pc[q] = "lookup1"
             => \/ q \in readers
                \/ q \in rwait /\ wholder # NoProc /\ pc[wholder] \notin FetchPcs

C8_Witness ==
    \E p, q \in Procs :
        /\ pc[p] = "fetching"
        /\ pc[q] = "lookup1" /\ q \in readers /\ Hit(cache, clientIP(q))

\* C9: a getDeviceByIP call for a cached address is never parked on the
\* cache lock while the lock holder is in saveDeviceCache.
C9_HitNeverWaitsOnDisk ==
    \A q \in Procs :
        (pc[q] = "lookup1" /\ q \in rwait /\ Hit(cache, clientIP(q)))
            => ~(wholder # NoProc /\ pc[wholder] \in SavePcs)

\* C10: persistence is detached from the request that triggered the
\* refresh: the request goroutine is never itself inside saveDeviceCache,
\* held up until the save has completed or failed.
C10_SaveDetached ==
    \A p \in Procs : pc[p] \notin SavePcs

Complete == \A p \in Procs : pc[p] # "populate"

\* C12: the snapshot swap is atomic for every observer: whenever somebody
\* holds the read lock (the lookups of getDeviceByIP, the serialization of
\* saveDeviceCache) the snapshot is complete, never the emptied or
\* half-populated map, nor the new map with the old LastUpdate.
C12_SwapAtomicForReaders ==
    readers # {} => Complete

C12_Witness ==
    \E p, q \in Procs :
        /\ pc[p] = "populate" /\ resp[p].Devices # << >>
        /\ cache.IPToDevice # EmptyMap /\ cache.LastUpdate # resp[p].Date
        /\ pc[q] = "lookup1" /\ q \in rwait

\* C13: every address that is a key of the snapshot appears in the address
\* list of the record it maps to, after the initial load and after any
\* sequence of refreshes.
C13_KeysListedByRecord ==
    \A a \in DOMAIN cache.IPToDevice :
        cache.IPToDevice[a] # Nil /\ Lists(cache.IPToDevice[a], a)

\* C15: loadDeviceCache on a cache file that does not exist returns no
\* error and leaves the snapshot empty: no address mapping, empty
\* LastUpdate.
C15_MissingFileLoadsEmpty ==
    (ppc = "ready" /\ file.kind = "absent")
        => (lerr = ErrNil /\ cache.IPToDevice = EmptyMap /\ cache.LastUpdate = Empty)

C15_Witness ==
    /\ ppc = "ready" /\ file.kind = "absent" /\ lerr = ErrNil
    /\ cache = EmptyCache
    /\ \E p \in Procs : pc[p] = "fetch" /\ clientIP(p) = A1

\* C16: when decoding the cache file fails during the initial load, the
\* failure is reported, Provision succeeds, and the snapshot served from is
\* empty: no request is resolved from an entry of the failing file.
C16_DecodeFailureServesEmpty ==
    (ppc = "ready" /\ lerr = "failed to unmarshal cache")
        => /\ perr = ErrNil
           /\ \A p \in Procs : pc[p] = "done" => dev[p] = Nil

\* C19: Provision fails exactly when api_key or tailnet is empty, whatever
\* the cache file is like, and when it succeeds header_prefix and
\* cache_file hold their defaults if they were not configured and the
\* configured values otherwise.
C19_ProvisionFailsOnlyOnConfig ==
    [][(ppc = "new" /\ ppc' # "new")
         => /\ ppc' = "failed" <=> (conf.APIKey = "" \/ conf.Tailnet = "")
            /\ IsError(perr') <=> ppc' = "failed"
            /\ ppc' = "ready"
                  => /\ conf'.HeaderPrefix =
                          (IF conf.HeaderPrefix = "" THEN "X-Tailscale-"
                           ELSE conf.HeaderPrefix)
                     /\ conf'.CacheFile =
                          (IF conf.CacheFile = "" THEN "tailscale_devices.json"
                           ELSE conf.CacheFile)
                     /\ conf'.APIKey = conf.APIKey
                     /\ conf'.Tailnet = conf.Tailnet]_vars

C19_Witness ==
    /\ ppc = "ready" /\ perr = ErrNil
    /\ file.kind = "syntax" /\ IsError(lerr)
    /\ conf.HeaderPrefix = "X-Tailscale-" /\ conf.CacheFile = "tailscale_devices.json"

\* Provision has run again and loaded what the save left on disk
Reloaded == ppc = "ready" /\ lerr # Dropped

\* every string of snapshot c is valid UTF-8
ValidUTF8(c) ==
    /\ ToValidUTF8(c.LastUpdate) = c.LastUpdate
    /\ \A a \in DOMAIN c.IPToDevice :
          /\ ToValidUTF8(a) = a
          /\ MarshalDevice(c.IPToDevice[a]) = c.IPToDevice[a]

C18_RefreshPersistsSnapshot ==
    \A p \in Procs :
        pc[p] = "save_marshal"
            => \/ p \in readers
               \/ file # AsFound /\ loadDeviceCache(file) = cache

\* the first entry of a comma-separated list, without surrounding blanks
FirstEntry(v) ==
    LET commas == {i \in 1..Len(v) : v[i] = ","}
    IN  TrimSpace(IF commas = {} THEN v
                  ELSE SubSeq(v, 1, (CHOOSE i \in commas : \A j \in commas : i <= j) - 1))

\* the host part of a peer address: what precedes ":port", or all of it
HostPart(a) ==
    IF Len(a) >= 2 /\ a[Len(a) - 1] = ":" THEN SubSeq(a, 1, Len(a) - 2) ELSE a

\* the priority order over the sources that has(h, name) holds to be there,
\* for the address ip derived from request r; xri is what the variant makes
\* of the real-IP value
ByPriority(r, ip, xri(_), has(_, _)) ==
    /\ has(r.Header, XForwardedFor) => ip = FirstEntry(HeaderGet(r.Header, XForwardedFor))
    /\ (~has(r.Header, XForwardedFor) /\ has(r.Header, XRealIP))
          => ip = xri(r.Header[XRealIP])
    /\ (~has(r.Header, XForwardedFor) /\ ~has(r.Header, XRealIP))
          => ip = HostPart(r.RemoteAddr)

Present(h, name) == name \in DOMAIN h
NonEmpty(h, name) == name \in DOMAIN h /\ h[name] # Empty
Untrimmed(v) == v

\* C20 as stated: the address is the first entry of the forwarded-for header
\* if that header is present, else the real-IP header if present, else the
\* host part of RemoteAddr, in both variants of getClientIP.
C20_PriorityByPresence ==
    \A p \in Procs :
        pc[p] # "idle"
            => /\ ByPriority(req[p], clientIP(p), Untrimmed, Present)
               /\ ByPriority(req[p], getClientIP_whois(req[p]), TrimSpace, Present)

\* C20 amended: the same order, where a header counts as a source only
\* when it is present with a non-empty value.
C20_PriorityByValue ==
    \A p \in Procs :
        pc[p] # "idle"
            => /\ ByPriority(req[p], clientIP(p), Untrimmed, NonEmpty)
               /\ ByPriority(req[p], getClientIP_whois(req[p]), TrimSpace, NonEmpty)

C20_Witness ==
    \E p \in Procs :
        /\ pc[p] = "done" /\ dev[p] = D1
        /\ Present(req[p].Header, XForwardedFor)
        /\ ~NonEmpty(req[p].Header, XForwardedFor)
        /\ Present(req[p].Header, XRealIP)
        /\ req[p].Header[XRealIP] = A1
        /\ req[p].RemoteAddr = A2

\* C21: a request annotated from a record whose address list (tag list) is
\* empty is handed downstream without an addresses (tags) header carrying
\* the configured prefix.
C21_EmptyListNoHeader ==
    \A p \in Procs :
        (pc[p] = "done" /\ ~IsError(err[p]) /\ dev[p] # Nil)
            => /\ dev[p].Node.Addresses = << >>
                    => HName(conf.HeaderPrefix, "Node-Addresses") \notin DOMAIN fwd[p].Header
               /\ dev[p].Node.Tags = << >>
                    => HName(conf.HeaderPrefix, "Node-Tags") \notin DOMAIN fwd[p].Header

\* C22: the annotator never emits a pair whose value is the empty string:
\* no header carrying the configured prefix in an annotated request has the
\* empty value.
C22_NoEmptyValuePair ==
    \A p \in Procs :
        (pc[p] = "done" /\ ~IsError(err[p]) /\ dev[p] # Nil)
            => \A n \in DOMAIN fwd[p].Header :
                  n[1] = conf.HeaderPrefix => fwd[p].Header[n] # Empty

\* C23: in direct-lookup mode every request with a non-empty client address
\* sends exactly one whois query, keyed by that address, and what is handed
\* downstream is determined by the configuration, the request and the
\* answer to that query.
C23_OneQueryKeyedByAddress ==
    \A p \in Procs :
        (pc[p] = "done" /\ getClientIP_whois(req[p]) # Empty)
            => /\ fetches[p] = 1
               /\ query[p].sent
               /\ query[p].addr = getClientIP_whois(req[p])
               /\ fwd[p].Header = (IF IsError(err[p]) THEN req[p].Header
                                   ELSE addUserHeaders(req[p].Header, dev[p]))

\* a step of p that installs the snapshot of its refresh
Installs(p) == pc[p] = "swap" /\ pc'[p] = "save"

\* C24: the snapshot's last_update is the Date header of the response that
\* produced the snapshot, the empty string when that header is absent: the
\* marker changes only when a refresh installs its snapshot, to the Date of
\* that refresh's response, and the refresh then goes on to the save and
\* returns no error, whatever the Date.
C24_LastUpdateIsDate ==
    [][/\ \A p \in Procs :
            /\ Installs(p) => cache'.LastUpdate = resp[p].Date
            /\ (pc[p] = "save" /\ pc'[p] # "save")
                  => (pc'[p] \in {"rlock2", "save_marshal"} /\ err'[p] = ErrNil)
       /\ cache'.LastUpdate # cache.LastUpdate => \E p \in Procs : Installs(p)]_vars

C24_Witness ==
    \E p \in Procs :
        /\ pc[p] = "done" /\ err[p] = ErrNil /\ fetches[p] = 1 /\ dev[p] = D1
        /\ cache.LastUpdate = Empty /\ cache.IPToDevice = (A1 :> D1)

\* C25: no deadlock: once the remote service has answered the fetch of a
\* refresh, the getDeviceByIP call that refreshes returns, and so does every
\* call that has started.
C25_RefreshCompletes ==
    \A p \in Procs :
        /\ (pc[p] = "lock") ~> (pc[p] = "done")
        /\ (pc[p] \in {"rlock1", "lookup1"}) ~> (pc[p] \in {"done", "fetch"})

\* C26: no negative caching: every call that misses on its first lookup
\* sends a directory fetch of its own, a call whose fetched directory lacks
\* the address is not parked for ever inside its refresh, and it ends in
\* NotFound when its second lookup misses too.
C26_EveryMissFetches ==
    [][\A p \in Procs :
         /\ (pc[p] = "lookup1" /\ pc'[p] # "lookup1" /\ ~Hit(cache, clientIP(p)))
               => pc'[p] = "fetch"
         /\ (pc[p] = "fetch" /\ pc'[p] # "fetch")
               => (pc'[p] = "fetching" /\ fetches'[p] = 1)
         /\ (Refreshed(p)' /\ listed'[p] = Nil) => ~SelfDeadlocked(p)'
         /\ (pc[p] = "lookup2" /\ pc'[p] = "done" /\ ~Hit(cache, clientIP(p)))
               => (dev'[p] = Nil /\ err'[p] = ErrNotFound /\ fetches'[p] = 1)]_vars

\* the addresses listed by the devices of directory ds
Addrs(ds) ==
    UNION {{ds[i].Addresses[k] : k \in 1..Len(ds[i].Addresses)} : i \in 1..Len(ds)}

\* C27: wholesale replacement: the step that installs a refresh's snapshot
\* leaves as keys exactly the addresses listed by the devices of the fetched
\* directory, and an address that was a key before and is listed by no
\* fetched device is no longer a hit.
C27_WholesaleReplacement ==
    [][\A p \in Procs :
         Installs(p)
            => /\ DOMAIN cache'.IPToDevice = Addrs(resp[p].Devices)
               /\ \A a \in DOMAIN cache.IPToDevice \ Addrs(resp[p].Devices) :
                     ~Hit(cache', a)]_vars

C27_Witness ==
    \E q \in Procs :
        /\ pc[q] = "done" /\ fetches[q] = 0 /\ dev[q] = D1 /\ clientIP(q) = A1
        /\ A1 \notin DOMAIN cache.IPToDevice
        /\ cache.LastUpdate = <<"t1">>

\* C28: an address maps to one record: the step that installs a refresh's
\* snapshot maps every listed address to the device that lists it and comes
\* last in the response, and a resolve that finds the address returns the
\* record the snapshot holds for it.
C28_LaterDeviceWins ==
    [][\A p \in Procs :
         /\ Installs(p)
               => \A a \in Addrs(resp[p].Devices) :
                     /\ a \in DOMAIN cache'.IPToDevice
                     /\ cache'.IPToDevice[a] = Listed(resp[p].Devices, a)
         /\ (pc[p] \in {"lookup1", "lookup2"} /\ pc'[p] = "done" /\ err'[p] = ErrNil)
               => dev'[p] = cache.IPToDevice[clientIP(p)]]_vars

C28_Witness ==
    \E p \in Procs :
        /\ pc[p] = "done" /\ fetches[p] = 1 /\ err[p] = ErrNil
        /\ clientIP(p) = A1 /\ dev[p] = D1
        /\ cache.IPToDevice = (A1 :> D1) @@ (A2 :> D2)

\* C29: the snapshot never regresses: a refresh installs its snapshot only
\* if its fetch is the one answered last, or the refresh answered last has
\* still to install its own (which then replaces it); an older fetch result
\* never overwrites a newer one.
C29_NoRegression ==
    [][\A p \in Procs :
         Installs(p)
            => \/ latest = p
               \/ latest \in Procs /\ pc[latest] \in {"lock", "swap"}]_vars

\* the headers of h that carry the configured prefix
Prefixed(h) == [n \in {m \in DOMAIN h : m[1] = conf.HeaderPrefix} |-> h[n]]

\* requests r1 and r2 differ at most in the values of the headers carrying
\* the configured prefix
Twins(r1, r2) ==
    /\ r1.RemoteAddr = r2.RemoteAddr
    /\ DOMAIN r1.Header = DOMAIN r2.Header
    /\ \A n \in DOMAIN r1.Header :
          n[1] # conf.HeaderPrefix => r1.Header[n] = r2.Header[n]

\* C30: the identity headers seen downstream do not depend on
\* client-supplied values: two served requests that differ only in the
\* values of prefixed headers and were resolved alike (the same record, or
\* the same failure) are handed downstream with identical prefixed headers.
C30_IdentityHeadersIndependent ==
    \A p, q \in Procs :
        (/\ pc[p] = "done" /\ pc[q] = "done"
         /\ Twins(req[p], req[q])
         /\ dev[p] = dev[q] /\ err[p] = err[q])
            => Prefixed(fwd[p].Header) = Prefixed(fwd[q].Header)

\* C31: a record returned by getDeviceByIP is a stable value: while the
\* caller holds the pointer and has not annotated yet, the record behind it
\* is as it was when returned; no step changes any field of a record that
\* has been allocated; and the headers handed downstream are those of the
\* record behind the returned pointer.
C31_ReturnedRecordStable ==
    [][/\ \A i \in 1..Len(heap) : i <= Len(heap') /\ heap'[i] = heap[i]
       /\ \A p \in Procs :
             /\ pc'[p] = "annotate" => heap'[dev'[p].at] = held'[p]
             /\ (pc[p] = "annotate" /\ pc'[p] = "done")
                   => fwd'[p].Header = addDeviceHeaders(req[p].Header, held[p])]_vars

C31_Witness ==
    \E p \in Procs :
        /\ pc[p] = "annotate" /\ held[p] = D1 /\ clientIP(p) = A1
        /\ Hit(cache, A1) /\ cache.IPToDevice[A1] # dev[p]
        /\ Deref(cache.IPToDevice[A1]) = D2

=============================================================================
